---- MODULE Spec2Model ----
(***************************************************************************)
(* HS071_NLP: the callbacks of the Hock-Schittkowski problem 71 handed to  *)
(* an interior-point engine through the TNLP interface                     *)
(* (hs071_nlp.cpp / hs071_nlp.hpp).                                        *)
(*                                                                         *)
(* The class has no data members: the state of the model is the engine's   *)
(* side of the interface, i.e. the arrays the engine allocates and hands   *)
(* to the callbacks, the console, and the assertion that has ended the    *)
(* process.  Arrays are functions over 0..len-1 (the code indexes from 0). *)
(* An output array holds slots: <<>> is a slot no callback has written,    *)
(* <<v>> a slot holding v.  Numbers are integers; the one number that is   *)
(* no small integer (2e19) is kept as mantissa and decimal exponent.       *)
(* assert is compiled in (CMakeLists.txt sets no build type, so NDEBUG     *)
(* is not defined): a failed assertion aborts the process.                 *)
(***************************************************************************)
EXTENDS Integers, Sequences, FiniteSets, TLC

VARIABLES info, x, obj_factor, lambda, z_L, z_U,
          x_l, x_u, g_l, g_u,
          obj_value, grad_f, g,
          jac_iRow, jac_jCol, jac_values,
          h_iRow, h_jCol, h_values,
          out, ret, aborted, err

vars == <<info, x, obj_factor, lambda, z_L, z_U, x_l, x_u, g_l, g_u,
          obj_value, grad_f, g, jac_iRow, jac_jCol, jac_values,
          h_iRow, h_jCol, h_values, out, ret, aborted, err>>

(* ------------------------------ bounds -------------------------------- *)
\* Spec: obj_factor ranges over 0..MaxW, and the engine fills the
\* multipliers lambda with one value of 0..MaxW
MaxW == 1
\* SpecEval: every component of the iterate ranges over -1..MaxEvalX
MaxEvalX == 2
\* SpecHess: every component of the iterate ranges over 0..MaxHessX, the
\* weights obj_factor, lambda[0], lambda[1] over -1..MaxHessW
MaxHessX == 2
MaxHessW == 1
\* SpecCalls, SpecFinal: the engine moves among MaxCallX iterates, each
\* in SpecCalls with weights of its own
MaxCallX == 2
Weights == 0..MaxW
EvalBox == -1..MaxEvalX
HessBox == 0..MaxHessX
HessWeights == -1..MaxHessW

(* ------------------------------ numbers ------------------------------- *)
\* Number (double) values that need a decimal exponent: m * 10^e, m >= 1
Num(m, e) == [m |-> m, e |-> e]
Whole(k) == Num(k, 0)

RECURSIVE Digits(_)
Digits(k) == IF k < 10 THEN 1 ELSE 1 + Digits(k \div 10)

RECURSIVE Pow10(_)
Pow10(k) == IF k = 0 THEN 1 ELSE 10 * Pow10(k - 1)

\* a <= b for positive numbers in mantissa/exponent form
NumLeq(a, b) ==
    LET da == Digits(a.m)
        db == Digits(b.m)
        d  == IF da > db THEN da ELSE db
    IN  IF da + a.e # db + b.e
        THEN da + a.e < db + b.e
        ELSE a.m * Pow10(d - da) <= b.m * Pow10(d - db)

NumEq(a, b) == NumLeq(a, b) /\ NumLeq(b, a)
NumLess(a, b) == ~NumLeq(b, a)

(* ------------------------------ arrays -------------------------------- *)
Fresh(len) == [k \in 0..(len - 1) |-> <<>>]
Written(buf, k) == k \in DOMAIN buf /\ buf[k] # <<>>
WrittenSlots(buf) == {k \in DOMAIN buf : buf[k] # <<>>}
\* buf[k] = v; a write past the end of the array shows as a slot outside
\* the allocated range
Put(buf, k, v) ==
    IF k \in DOMAIN buf
    THEN [buf EXCEPT ![k] = <<v>>]
    ELSE [j \in DOMAIN buf \cup {k} |-> IF j = k THEN <<v>> ELSE buf[j]]
Val(buf, k) == buf[k][1]
\* an array with every slot written, as the function of its values
Filled(f) == [k \in DOMAIN f |-> <<f[k]>>]
Values(buf) == [k \in WrittenSlots(buf) |-> buf[k][1]]

(* --------------------------- get_nlp_info ----------------------------- *)
C_STYLE == 0

NlpInfo ==
    [n |-> 4, m |-> 2, nnz_jac_g |-> 8, nnz_h_lag |-> 10, index_style |-> C_STYLE]

\* the values the engine may hand to a callback for a declared dimension d
DimChoices(d) == {d - 1, d, d + 1}

(* -------------------------- get_bounds_info --------------------------- *)
\* assert(e): the first assertion that fails, as assert reports it, or
\* Passed
Passed == ""
get_bounds_info_assert(n, m) ==
    IF n # 4 THEN "n == 4" ELSE IF m # 2 THEN "m == 2" ELSE Passed

\* for( Index i = 0; i < 4; i++ ) buf[i] = v;
RECURSIVE FillLoop(_, _, _)
FillLoop(buf, i, v) == IF i < 4 THEN FillLoop(Put(buf, i, v), i + 1, v) ELSE buf

x_l_values(buf) == FillLoop(buf, 0, Whole(1))
x_u_values(buf) == FillLoop(buf, 0, Whole(5))
g_l_values(buf) == Put(Put(buf, 0, Whole(25)), 1, Whole(40))
\* the sentinel written one decimal digit short
g_u_values_2e18(buf) == Put(Put(buf, 0, Num(2, 18)), 1, Whole(40))
g_u_values(buf) == Put(Put(buf, 0, Num(2, 19)), 1, Whole(40))

\* the engine's default nlp_upper_bound_inf: a bound above it is +infinity
nlp_upper_bound_inf == Num(1, 19)

(* ------------------------- get_starting_point ------------------------- *)
get_starting_point_assert(init_x, init_z, init_lambda) ==
    IF init_x # TRUE THEN "init_x == true"
    ELSE IF init_z # FALSE THEN "init_z == false"
    ELSE IF init_lambda # FALSE THEN "init_lambda == false" ELSE Passed

\* the arrays handed to the call, as the call leaves them: x[0..3] are
\* assigned, z_L, z_U and lambda are not touched
\* bound multipliers supplied as well (z_L[i] = z_U[i] = 1)
get_starting_point_writes_duals(xx, zl, zu, lam) ==
    [x |-> Put(Put(Put(Put(xx, 0, 1), 1, 5), 2, 5), 3, 1),
     z_L |-> [i \in DOMAIN zl |-> 1], z_U |-> [i \in DOMAIN zu |-> 1], lambda |-> lam]

\* x[3] given the value of x[2]
get_starting_point_writes_x3(xx, zl, zu, lam) ==
    [x |-> Put(Put(Put(Put(xx, 0, 1), 1, 5), 2, 5), 3, 5),
     z_L |-> zl, z_U |-> zu, lambda |-> lam]

get_starting_point_writes(xx, zl, zu, lam) ==
    [x |-> Put(Put(Put(Put(xx, 0, 1), 1, 5), 2, 5), 3, 1),
     z_L |-> zl, z_U |-> zu, lambda |-> lam]

(* ------------------------------- eval_f ------------------------------- *)
\* the assertion compiled out
eval_f_assert_off(n) == Passed
eval_f_assert(n) == IF n # 4 THEN "n == 4" ELSE Passed

f_value(xx) == xx[0] * xx[3] * (xx[0] + xx[1] + xx[2]) + xx[2]

(* ----------------------------- eval_grad_f ---------------------------- *)
eval_grad_f_assert(n) == IF n # 4 THEN "n == 4" ELSE Passed

\* grad_f[2] without the derivative of the linear term x[2]
grad_f_values_no_linear_term(xx, buf) ==
    LET b0 == Put(buf, 0, xx[0] * xx[3] + xx[3] * (xx[0] + xx[1] + xx[2]))
        b1 == Put(b0, 1, xx[0] * xx[3])
        b2 == Put(b1, 2, xx[0] * xx[3])
    IN  Put(b2, 3, xx[0] * (xx[0] + xx[1] + xx[2]))

grad_f_values(xx, buf) ==
    LET b0 == Put(buf, 0, xx[0] * xx[3] + xx[3] * (xx[0] + xx[1] + xx[2]))
        b1 == Put(b0, 1, xx[0] * xx[3])
        b2 == Put(b1, 2, xx[0] * xx[3] + 1)
    IN  Put(b2, 3, xx[0] * (xx[0] + xx[1] + xx[2]))

(* ------------------------------- eval_g ------------------------------- *)
eval_g_assert(n, m) ==
    IF n # 4 THEN "n == 4" ELSE IF m # 2 THEN "m == 2" ELSE Passed

g_values(xx, buf) ==
    LET b0 == Put(buf, 0, xx[0] * xx[1] * xx[2] * xx[3])
    IN  Put(b0, 1, xx[0] * xx[0] + xx[1] * xx[1] + xx[2] * xx[2] + xx[3] * xx[3])

(* ----------------------------- eval_jac_g ----------------------------- *)
eval_jac_g_assert(n, m, nele_jac) ==
    IF n # 4 THEN "n == 4" ELSE IF m # 2 THEN "m == 2" ELSE Passed

jac_iRow_structure(buf) ==
    Put(Put(Put(Put(Put(Put(Put(Put(buf, 0, 0), 1, 0), 2, 0), 3, 0),
                    4, 1), 5, 1), 6, 1), 7, 1)

\* the last column index repeating the one before it
jac_jCol_structure_repeated(buf) ==
    Put(Put(Put(Put(Put(Put(Put(Put(buf, 0, 0), 1, 1), 2, 2), 3, 3),
                    4, 0), 5, 1), 6, 2), 7, 2)

jac_jCol_structure(buf) ==
    Put(Put(Put(Put(Put(Put(Put(Put(buf, 0, 0), 1, 1), 2, 2), 3, 3),
                    4, 0), 5, 1), 6, 2), 7, 3)

\* values[2] and values[3] exchanged
jac_g_values_swapped(xx, buf) ==
    LET b0 == Put(buf, 0, xx[1] * xx[2] * xx[3])
        b1 == Put(b0, 1, xx[0] * xx[2] * xx[3])
        b2 == Put(b1, 2, xx[0] * xx[1] * xx[2])
        b3 == Put(b2, 3, xx[0] * xx[1] * xx[3])
        b4 == Put(b3, 4, 2 * xx[0])
        b5 == Put(b4, 5, 2 * xx[1])
        b6 == Put(b5, 6, 2 * xx[2])
    IN  Put(b6, 7, 2 * xx[3])

jac_g_values(xx, buf) ==
    LET b0 == Put(buf, 0, xx[1] * xx[2] * xx[3])
        b1 == Put(b0, 1, xx[0] * xx[2] * xx[3])
        b2 == Put(b1, 2, xx[0] * xx[1] * xx[3])
        b3 == Put(b2, 3, xx[0] * xx[1] * xx[2])
        b4 == Put(b3, 4, 2 * xx[0])
        b5 == Put(b4, 5, 2 * xx[1])
        b6 == Put(b5, 6, 2 * xx[2])
    IN  Put(b6, 7, 2 * xx[3])

(* ------------------------------- eval_h ------------------------------- *)
eval_h_assert(n, m, nele_hess) ==
    IF n # 4 THEN "n == 4" ELSE IF m # 2 THEN "m == 2" ELSE Passed

\* Index idx = 0; for( row = 0; row < 4; row++ ) for( col = 0; col <= row; col++ )
\*   { iRow[idx] = row; jCol[idx] = col; idx++; }
\* the inner loop stopping before the diagonal (col < row)
RECURSIVE h_structure_loop_strict(_, _, _, _, _)
h_structure_loop_strict(row, col, idx, iRow, jCol) ==
    IF row < 4
    THEN IF col < row
         THEN h_structure_loop_strict(row, col + 1, idx + 1,
                                      Put(iRow, idx, row), Put(jCol, idx, col))
         ELSE h_structure_loop_strict(row + 1, 0, idx, iRow, jCol)
    ELSE [iRow |-> iRow, jCol |-> jCol, idx |-> idx]

\* the loops exchanged: for each col, every row from col to 3
RECURSIVE h_structure_loop_column_major(_, _, _, _, _)
h_structure_loop_column_major(row, col, idx, iRow, jCol) ==
    IF col < 4
    THEN IF row < 4
         THEN h_structure_loop_column_major(row + 1, col, idx + 1,
                                            Put(iRow, idx, row), Put(jCol, idx, col))
         ELSE h_structure_loop_column_major(col + 1, col + 1, idx, iRow, jCol)
    ELSE [iRow |-> iRow, jCol |-> jCol, idx |-> idx]

RECURSIVE h_structure_loop(_, _, _, _, _)
h_structure_loop(row, col, idx, iRow, jCol) ==
    IF row < 4
    THEN IF col <= row
         THEN h_structure_loop(row, col + 1, idx + 1,
                               Put(iRow, idx, row), Put(jCol, idx, col))
         ELSE h_structure_loop(row + 1, 0, idx, iRow, jCol)
    ELSE [iRow |-> iRow, jCol |-> jCol, idx |-> idx]

h_structure(iRow, jCol) == h_structure_loop(0, 0, 0, iRow, jCol)

\* assert(idx == nele_hess), after the loop
h_structure_assert(idx, nele_hess) ==
    IF idx # nele_hess THEN "idx == nele_hess" ELSE Passed

\* values[k] += d, on a slot the code has written before
Add(buf, k, d) == Put(buf, k, Val(buf, k) + d)

\* the slots without an objective term (2, 4, 5, 9) zeroed by the first
\* value call only
h_objective_part_zeroes_once(of, xx, buf) ==
    LET Zero(b, k) == IF Written(b, k) THEN b ELSE Put(b, k, 0)
        b0 == Put(buf, 0, of * (2 * xx[3]))
        b1 == Put(b0, 1, of * (xx[3]))
        b2 == Zero(b1, 2)
        b3 == Put(b2, 3, of * (xx[3]))
        b4 == Zero(b3, 4)
        b5 == Zero(b4, 5)
        b6 == Put(b5, 6, of * (2 * xx[0] + xx[1] + xx[2]))
        b7 == Put(b6, 7, of * (xx[0]))
        b8 == Put(b7, 8, of * (xx[0]))
    IN  Zero(b8, 9)

h_objective_part(of, xx, buf) ==
    LET b0 == Put(buf, 0, of * (2 * xx[3]))
        b1 == Put(b0, 1, of * (xx[3]))
        b2 == Put(b1, 2, 0)
        b3 == Put(b2, 3, of * (xx[3]))
        b4 == Put(b3, 4, 0)
        b5 == Put(b4, 5, 0)
        b6 == Put(b5, 6, of * (2 * xx[0] + xx[1] + xx[2]))
        b7 == Put(b6, 7, of * (xx[0]))
        b8 == Put(b7, 8, of * (xx[0]))
    IN  Put(b8, 9, 0)

\* the (2,1) term added to slot 5, the slot of (2,2)
h_first_constraint_part_wrong_slot(xx, lam, buf) ==
    LET b1 == Add(buf, 1, lam[0] * (xx[2] * xx[3]))
        b3 == Add(b1, 3, lam[0] * (xx[1] * xx[3]))
        b4 == Add(b3, 5, lam[0] * (xx[0] * xx[3]))
        b6 == Add(b4, 6, lam[0] * (xx[1] * xx[2]))
        b7 == Add(b6, 7, lam[0] * (xx[0] * xx[2]))
    IN  Add(b7, 8, lam[0] * (xx[0] * xx[1]))

h_first_constraint_part(xx, lam, buf) ==
    LET b1 == Add(buf, 1, lam[0] * (xx[2] * xx[3]))
        b3 == Add(b1, 3, lam[0] * (xx[1] * xx[3]))
        b4 == Add(b3, 4, lam[0] * (xx[0] * xx[3]))
        b6 == Add(b4, 6, lam[0] * (xx[1] * xx[2]))
        b7 == Add(b6, 7, lam[0] * (xx[0] * xx[2]))
    IN  Add(b7, 8, lam[0] * (xx[0] * xx[1]))

\* the diagonal terms weighted by lambda[0] instead of lambda[1]
h_second_constraint_part_wrong_multiplier(lam, buf) ==
    Add(Add(Add(Add(buf, 0, lam[0] * 2), 2, lam[0] * 2), 5, lam[0] * 2), 9, lam[0] * 2)

h_second_constraint_part(lam, buf) ==
    Add(Add(Add(Add(buf, 0, lam[1] * 2), 2, lam[1] * 2), 5, lam[1] * 2), 9, lam[1] * 2)

h_values_of(of, xx, lam, buf) ==
    h_second_constraint_part(lam,
        h_first_constraint_part(xx, lam, h_objective_part(of, xx, buf)))

(* -------------------------- finalize_solution ------------------------- *)
\* std::cout << name << "[" << i << "] = " << arr[i], for i = 0..cnt-1; a
\* read past the end of arr yields junk
RECURSIVE PrintArray(_, _, _, _, _)
PrintArray(name, arr, cnt, i, junk) ==
    IF i < cnt
    THEN <<[name |-> name, i |-> i,
            v |-> IF i \in DOMAIN arr THEN arr[i] ELSE junk,
            valid |-> i \in DOMAIN arr]>>
         \o PrintArray(name, arr, cnt, i + 1, junk)
    ELSE <<>>

\* the constraint values printed before the objective value
finalize_output_constraints_first(n, xx, zl, zu, m, gg, obj, junk) ==
    PrintArray("x", xx, n, 0, junk)
    \o PrintArray("z_L", zl, n, 0, junk)
    \o PrintArray("z_U", zu, n, 0, junk)
    \o PrintArray("g", gg, m, 0, junk)
    \o <<[name |-> "f(x*)", i |-> 0, v |-> obj, valid |-> TRUE]>>

finalize_output(n, xx, zl, zu, m, gg, obj, junk) ==
    PrintArray("x", xx, n, 0, junk)
    \o PrintArray("z_L", zl, n, 0, junk)
    \o PrintArray("z_U", zu, n, 0, junk)
    \o <<[name |-> "f(x*)", i |-> 0, v |-> obj, valid |-> TRUE]>>
    \o PrintArray("g", gg, m, 0, junk)

\* what a read past the end of an engine array may yield
Junk == {0, 7}

\* the lines printed before the first read past the end of an array
RECURSIVE ValidPrefix(_)
ValidPrefix(lines) ==
    IF lines = <<>> \/ ~lines[1].valid THEN <<>>
    ELSE <<lines[1]>> \o ValidPrefix(Tail(lines))

(* ----------------------------- the engine ----------------------------- *)
\* the iterate the engine evaluates at: x, once x holds one
HasIterate == x # <<>> /\ WrittenSlots(x) = DOMAIN x
Iterate == [i \in DOMAIN x |-> x[i][1]]

\* the arrays the engine has not allocated yet
NoArray == <<>>

Init ==
    /\ info = <<>>
    /\ x = NoArray /\ lambda = NoArray /\ z_L = NoArray /\ z_U = NoArray
    /\ obj_factor = 0
    /\ x_l = NoArray /\ x_u = NoArray /\ g_l = NoArray /\ g_u = NoArray
    /\ obj_value = <<>> /\ grad_f = NoArray /\ g = NoArray
    /\ jac_iRow = NoArray /\ jac_jCol = NoArray /\ jac_values = NoArray
    /\ h_iRow = NoArray /\ h_jCol = NoArray /\ h_values = NoArray
    /\ out = <<>>
    /\ ret = "none"
    /\ aborted = FALSE
    /\ err = <<>>

\* the process is running and the engine knows the problem's dimensions
Running == ~aborted /\ info # <<>>

\* the engine has not reported a solution yet
NotFinished == ret # "void"

\* a failed assertion reports the function and the expression and ends the
\* process; the call writes nothing more
Abort(fn, expr, others) ==
    /\ aborted' = TRUE
    /\ err' = <<[fn |-> fn, expr |-> expr]>>
    /\ UNCHANGED others

\* get_nlp_info, and the engine allocating its arrays from the answer.  XS:
\* what the array x may hold then (nothing, or an iterate of the engine);
\* LS, WS: the multiplier vectors and objective factors of the engine
get_nlp_info(XS, LS, WS) ==
    /\ ~aborted /\ info = <<>>
    /\ info' = <<NlpInfo>>
    /\ x' \in XS
    /\ lambda' \in LS
    /\ obj_factor' \in WS
    /\ z_L' = [i \in 0..(NlpInfo.n - 1) |-> 0]
    /\ z_U' = [i \in 0..(NlpInfo.n - 1) |-> 0]
    /\ x_l' = Fresh(NlpInfo.n) /\ x_u' = Fresh(NlpInfo.n)
    /\ g_l' = Fresh(NlpInfo.m) /\ g_u' = Fresh(NlpInfo.m)
    /\ grad_f' = Fresh(NlpInfo.n) /\ g' = Fresh(NlpInfo.m)
    /\ jac_iRow' = Fresh(NlpInfo.nnz_jac_g) /\ jac_jCol' = Fresh(NlpInfo.nnz_jac_g)
    /\ jac_values' = Fresh(NlpInfo.nnz_jac_g)
    /\ h_iRow' = Fresh(NlpInfo.nnz_h_lag) /\ h_jCol' = Fresh(NlpInfo.nnz_h_lag)
    /\ h_values' = Fresh(NlpInfo.nnz_h_lag)
    /\ ret' = "true"
    /\ UNCHANGED <<obj_value, out, aborted, err>>

\* the engine moves to another iterate and other weights: between two
\* callbacks it rewrites the x, lambda and obj_factor it hands to them
engine_iterate(xx, lam, w) ==
    /\ Running
    /\ <<Filled(xx), lam, w>> # <<x, lambda, obj_factor>>
    /\ x' = Filled(xx) /\ lambda' = lam /\ obj_factor' = w
    /\ UNCHANGED <<info, z_L, z_U, x_l, x_u, g_l, g_u, obj_value, grad_f, g,
                   jac_iRow, jac_jCol, jac_values, h_iRow, h_jCol, h_values,
                   out, ret, aborted, err>>

get_bounds_info(n, m) ==
    /\ Running
    /\ IF get_bounds_info_assert(n, m) = Passed
       THEN /\ x_l' = x_l_values(x_l)
            /\ x_u' = x_u_values(x_u)
            /\ g_l' = g_l_values(g_l)
            /\ g_u' = g_u_values(g_u)
            /\ ret' = "true"
            /\ UNCHANGED <<info, x, obj_factor, lambda, z_L, z_U, obj_value, grad_f, g,
                           jac_iRow, jac_jCol, jac_values, h_iRow, h_jCol, h_values,
                           out, aborted, err>>
       ELSE Abort("get_bounds_info", get_bounds_info_assert(n, m),
                  <<info, x, obj_factor, lambda, z_L, z_U, x_l, x_u, g_l, g_u,
                    obj_value, grad_f, g, jac_iRow, jac_jCol, jac_values,
                    h_iRow, h_jCol, h_values, out, ret>>)

\* the engine takes the x written as its iterate
get_starting_point(n, init_x, init_z, init_lambda, m) ==
    /\ Running
    /\ IF get_starting_point_assert(init_x, init_z, init_lambda) = Passed
       THEN /\ LET w == get_starting_point_writes(x, z_L, z_U, lambda)
               IN  x' = w.x /\ z_L' = w.z_L /\ z_U' = w.z_U /\ lambda' = w.lambda
            /\ ret' = "true"
            /\ UNCHANGED <<info, obj_factor, x_l, x_u, g_l, g_u,
                           obj_value, grad_f, g, jac_iRow, jac_jCol, jac_values,
                           h_iRow, h_jCol, h_values, out, aborted, err>>
       ELSE Abort("get_starting_point", get_starting_point_assert(init_x, init_z, init_lambda),
                  <<info, x, obj_factor, lambda, z_L, z_U, x_l, x_u, g_l, g_u,
                    obj_value, grad_f, g, jac_iRow, jac_jCol, jac_values,
                    h_iRow, h_jCol, h_values, out, ret>>)

eval_f(n, new_x) ==
    /\ Running /\ HasIterate
    /\ IF eval_f_assert(n) = Passed
       THEN /\ ret' = "true"
            /\ UNCHANGED <<info, x, obj_factor, lambda, z_L, z_U, x_l, x_u, g_l, g_u,
                           grad_f, g, jac_iRow, jac_jCol, jac_values,
                           h_iRow, h_jCol, h_values, out, aborted, err>>
            /\ obj_value' = <<f_value(Iterate)>>
       ELSE Abort("eval_f", eval_f_assert(n),
                  <<info, x, obj_factor, lambda, z_L, z_U, x_l, x_u, g_l, g_u,
                    obj_value, grad_f, g, jac_iRow, jac_jCol, jac_values,
                    h_iRow, h_jCol, h_values, out, ret>>)

eval_grad_f(n, new_x) ==
    /\ Running /\ HasIterate
    /\ IF eval_grad_f_assert(n) = Passed
       THEN /\ ret' = "true"
            /\ UNCHANGED <<info, x, obj_factor, lambda, z_L, z_U, x_l, x_u, g_l, g_u,
                           obj_value, g, jac_iRow, jac_jCol, jac_values,
                           h_iRow, h_jCol, h_values, out, aborted, err>>
            /\ grad_f' = grad_f_values(Iterate, grad_f)
       ELSE Abort("eval_grad_f", eval_grad_f_assert(n),
                  <<info, x, obj_factor, lambda, z_L, z_U, x_l, x_u, g_l, g_u,
                    obj_value, grad_f, g, jac_iRow, jac_jCol, jac_values,
                    h_iRow, h_jCol, h_values, out, ret>>)

\* g recomputed only when new_x says x has changed
eval_g_trusts_new_x(n, new_x, m) ==
    /\ Running /\ HasIterate
    /\ IF eval_g_assert(n, m) = Passed
       THEN /\ ret' = "true"
            /\ UNCHANGED <<info, x, obj_factor, lambda, z_L, z_U, x_l, x_u, g_l, g_u,
                           obj_value, grad_f, jac_iRow, jac_jCol, jac_values,
                           h_iRow, h_jCol, h_values, out, aborted, err>>
            /\ g' = IF ~new_x /\ WrittenSlots(g) = DOMAIN g THEN g ELSE g_values(Iterate, g)
       ELSE Abort("eval_g", eval_g_assert(n, m),
                  <<info, x, obj_factor, lambda, z_L, z_U, x_l, x_u, g_l, g_u,
                    obj_value, grad_f, g, jac_iRow, jac_jCol, jac_values,
                    h_iRow, h_jCol, h_values, out, ret>>)

eval_g(n, new_x, m) ==
    /\ Running /\ HasIterate
    /\ IF eval_g_assert(n, m) = Passed
       THEN /\ ret' = "true"
            /\ UNCHANGED <<info, x, obj_factor, lambda, z_L, z_U, x_l, x_u, g_l, g_u,
                           obj_value, grad_f, jac_iRow, jac_jCol, jac_values,
                           h_iRow, h_jCol, h_values, out, aborted, err>>
            /\ g' = g_values(Iterate, g)
       ELSE Abort("eval_g", eval_g_assert(n, m),
                  <<info, x, obj_factor, lambda, z_L, z_U, x_l, x_u, g_l, g_u,
                    obj_value, grad_f, g, jac_iRow, jac_jCol, jac_values,
                    h_iRow, h_jCol, h_values, out, ret>>)

\* the else missing: a structure call goes on to the values when it is
\* handed an x
eval_jac_g_no_else(n, new_x, m, nele_jac, structure) ==
    /\ Running
    /\ ~structure => HasIterate /\ WrittenSlots(jac_iRow) # {}
    /\ IF eval_jac_g_assert(n, m, nele_jac) = Passed
       THEN /\ ret' = "true"
            /\ UNCHANGED <<info, x, obj_factor, lambda, z_L, z_U, x_l, x_u, g_l, g_u,
                           obj_value, grad_f, g, h_iRow, h_jCol, h_values, out, aborted, err>>
            /\ IF structure
               THEN /\ jac_values' = IF HasIterate THEN jac_g_values(Iterate, jac_values)
                                                  ELSE jac_values
                    /\ jac_iRow' = jac_iRow_structure(jac_iRow)
                    /\ jac_jCol' = jac_jCol_structure(jac_jCol)
               ELSE /\ UNCHANGED <<jac_iRow, jac_jCol>>
                    /\ jac_values' = jac_g_values(Iterate, jac_values)
       ELSE Abort("eval_jac_g", eval_jac_g_assert(n, m, nele_jac),
                  <<info, x, obj_factor, lambda, z_L, z_U, x_l, x_u, g_l, g_u,
                    obj_value, grad_f, g, jac_iRow, jac_jCol, jac_values,
                    h_iRow, h_jCol, h_values, out, ret>>)

\* structure: values == NULL (the engine then hands no x, and in the other
\* mode no iRow and jCol).  The engine asks for the values at an iterate,
\* after it has asked for the structure.
eval_jac_g(n, new_x, m, nele_jac, structure) ==
    /\ Running
    /\ ~structure => HasIterate /\ WrittenSlots(jac_iRow) # {}
    /\ IF eval_jac_g_assert(n, m, nele_jac) = Passed
       THEN /\ ret' = "true"
            /\ UNCHANGED <<info, x, obj_factor, lambda, z_L, z_U, x_l, x_u, g_l, g_u,
                           obj_value, grad_f, g, h_iRow, h_jCol, h_values, out, aborted, err>>
            /\ IF structure
               THEN /\ UNCHANGED jac_values
                    /\ jac_iRow' = jac_iRow_structure(jac_iRow)
                    /\ jac_jCol' = jac_jCol_structure(jac_jCol)
               ELSE /\ UNCHANGED <<jac_iRow, jac_jCol>>
                    /\ jac_values' = jac_g_values(Iterate, jac_values)
       ELSE Abort("eval_jac_g", eval_jac_g_assert(n, m, nele_jac),
                  <<info, x, obj_factor, lambda, z_L, z_U, x_l, x_u, g_l, g_u,
                    obj_value, grad_f, g, jac_iRow, jac_jCol, jac_values,
                    h_iRow, h_jCol, h_values, out, ret>>)

eval_h(n, new_x, m, new_lambda, nele_hess, structure) ==
    /\ Running
    /\ ~structure => HasIterate /\ WrittenSlots(h_iRow) # {}
    /\ IF eval_h_assert(n, m, nele_hess) = Passed
       THEN IF structure
            THEN LET s == h_structure(h_iRow, h_jCol)
                 IN  /\ UNCHANGED <<info, x, obj_factor, lambda, z_L, z_U, x_l, x_u,
                                    g_l, g_u, obj_value, grad_f, g, jac_iRow, jac_jCol,
                                    jac_values, h_values, out>>
                     /\ h_iRow' = s.iRow
                     /\ h_jCol' = s.jCol
                     /\ IF h_structure_assert(s.idx, nele_hess) = Passed
                        THEN ret' = "true" /\ UNCHANGED <<aborted, err>>
                        ELSE /\ aborted' = TRUE
                             /\ err' = <<[fn |-> "eval_h",
                                          expr |-> h_structure_assert(s.idx, nele_hess)]>>
                             /\ UNCHANGED ret
            ELSE /\ ret' = "true"
                 /\ UNCHANGED <<info, x, obj_factor, lambda, z_L, z_U, x_l, x_u,
                                g_l, g_u, obj_value, grad_f, g, jac_iRow, jac_jCol,
                                jac_values, h_iRow, h_jCol, out, aborted, err>>
                 /\ h_values' = h_values_of(obj_factor, Iterate, lambda, h_values)
       ELSE Abort("eval_h", eval_h_assert(n, m, nele_hess),
                  <<info, x, obj_factor, lambda, z_L, z_U, x_l, x_u, g_l, g_u,
                    obj_value, grad_f, g, jac_iRow, jac_jCol, jac_values,
                    h_iRow, h_jCol, h_values, out, ret>>)

\* called when the engine has finished, with the engine's final iterate,
\* multipliers, objective value and constraint values.  A read past the end
\* of an array (n or m above the array's length) yields junk or ends the
\* process at that read.
finalize_solution(n, m, junk, crash) ==
    /\ Running
    /\ obj_value # <<>> /\ WrittenSlots(g) = DOMAIN g
    /\ LET lines == finalize_output(n, Iterate, z_L, z_U, m, Values(g), obj_value[1], junk)
       IN  IF crash /\ ValidPrefix(lines) # lines
           THEN /\ out' = out \o ValidPrefix(lines)
                /\ aborted' = TRUE
                /\ err' = <<[fn |-> "finalize_solution", expr |-> "SIGSEGV"]>>
                /\ UNCHANGED ret
           ELSE out' = out \o lines /\ ret' = "void" /\ UNCHANGED <<aborted, err>>
    /\ UNCHANGED <<info, x, obj_factor, lambda, z_L, z_U, x_l, x_u, g_l, g_u,
                   obj_value, grad_f, g, jac_iRow, jac_jCol, jac_values,
                   h_iRow, h_jCol, h_values>>

(* --------------------------- specifications --------------------------- *)
Ns == DimChoices(NlpInfo.n)
Ms == DimChoices(NlpInfo.m)
NeleJacs == DimChoices(NlpInfo.nnz_jac_g)
NeleHesss == DimChoices(NlpInfo.nnz_h_lag)
Flags == BOOLEAN
\* the dimensions the engine hands to one call: the declared ones, or one
\* of them off by one
Dims2 == {d \in Ns \X Ms : d[1] = NlpInfo.n \/ d[2] = NlpInfo.m}
Dims3(Neles, nele) ==
    {d \in Ns \X Ms \X Neles :
        \/ d[1] = NlpInfo.n /\ d[2] = NlpInfo.m
        \/ d[1] = NlpInfo.n /\ d[3] = nele
        \/ d[2] = NlpInfo.m /\ d[3] = nele}
DimsJac == Dims3(NeleJacs, NlpInfo.nnz_jac_g)
DimsHess == Dims3(NeleHesss, NlpInfo.nnz_h_lag)

\* Spec: the engine calls in any order, with any flags; it has no iterate
\* before get_starting_point gives it one, and finalize_solution is its
\* last call
Uniform(len, S) == {[i \in 0..(len - 1) |-> c] : c \in S}

Next ==
    \/ get_nlp_info({Fresh(NlpInfo.n)}, Uniform(NlpInfo.m, Weights), Weights)
    \/ \E d \in Dims2 : NotFinished /\ get_bounds_info(d[1], d[2])
    \/ \E d \in Dims2, init_x \in Flags, init_z \in Flags, init_lambda \in Flags :
           NotFinished /\ get_starting_point(d[1], init_x, init_z, init_lambda, d[2])
    \/ \E n \in Ns, new_x \in Flags : NotFinished /\ eval_f(n, new_x)
    \/ \E n \in Ns, new_x \in Flags : NotFinished /\ eval_grad_f(n, new_x)
    \/ \E d \in Dims2, new_x \in Flags : NotFinished /\ eval_g(d[1], new_x, d[2])
    \/ \E d \in DimsJac, new_x \in Flags, structure \in Flags :
           NotFinished /\ eval_jac_g(d[1], new_x, d[2], d[3], structure)
    \/ \E d \in DimsHess, new_x \in Flags, new_lambda \in Flags, structure \in Flags :
           NotFinished /\ eval_h(d[1], new_x, d[2], new_lambda, d[3], structure)
    \/ \E d \in Dims2, junk \in Junk, crash \in Flags :
           NotFinished /\ finalize_solution(d[1], d[2], junk, crash)

Spec == Init /\ [][Next]_vars

\* SpecEval: the objective, its gradient, the constraints and their
\* Jacobian evaluated, with the declared dimensions, at an iterate of the
\* engine, for every iterate of the box
BoxIterates == {Filled(xx) : xx \in [0..(NlpInfo.n - 1) -> EvalBox]}

NextEval ==
    \/ get_nlp_info(BoxIterates, {[i \in 0..(NlpInfo.m - 1) |-> 0]}, {1})
    \/ \E new_x \in BOOLEAN : eval_f(NlpInfo.n, new_x)
    \/ \E new_x \in BOOLEAN : eval_grad_f(NlpInfo.n, new_x)
    \/ \E new_x \in BOOLEAN : eval_g(NlpInfo.n, new_x, NlpInfo.m)
    \/ \E new_x \in BOOLEAN, structure \in BOOLEAN :
           eval_jac_g(NlpInfo.n, new_x, NlpInfo.m, NlpInfo.nnz_jac_g, structure)

SpecEval == Init /\ [][NextEval]_vars

\* SpecHess: the Hessian of the Lagrangian evaluated, with the declared
\* dimensions, at every iterate of the box under every choice of weights
NextHess ==
    \/ get_nlp_info({Filled(xx) : xx \in [0..(NlpInfo.n - 1) -> HessBox]},
                    [0..(NlpInfo.m - 1) -> HessWeights], HessWeights)
    \/ \E new_x \in BOOLEAN, new_lambda \in BOOLEAN, structure \in BOOLEAN :
           eval_h(NlpInfo.n, new_x, NlpInfo.m, new_lambda, NlpInfo.nnz_h_lag, structure)

SpecHess == Init /\ [][NextHess]_vars

\* SpecCalls: the evaluators called in any order, with the declared
\* dimensions and any flags, while the engine moves from iterate to iterate
\* and from weights to weights; the arrays keep what the last call wrote
CallIterates == {[i \in 0..(NlpInfo.n - 1) |-> k + i] : k \in 1..MaxCallX}
CallWeights(xx) ==
    [obj_factor |-> xx[0] - 1,
     lambda |-> [i \in 0..(NlpInfo.m - 1) |-> xx[0] - i]]

NextCalls ==
    \/ get_nlp_info({Fresh(NlpInfo.n)}, {[i \in 0..(NlpInfo.m - 1) |-> 0]}, {0})
    \/ \E xx \in CallIterates :
           engine_iterate(xx, CallWeights(xx).lambda, CallWeights(xx).obj_factor)
    \/ \E new_x \in Flags : eval_f(NlpInfo.n, new_x)
    \/ \E new_x \in Flags : eval_grad_f(NlpInfo.n, new_x)
    \/ \E new_x \in Flags : eval_g(NlpInfo.n, new_x, NlpInfo.m)
    \/ \E new_x \in Flags, structure \in Flags :
           eval_jac_g(NlpInfo.n, new_x, NlpInfo.m, NlpInfo.nnz_jac_g, structure)
    \/ \E new_x \in Flags, new_lambda \in Flags, structure \in Flags :
           eval_h(NlpInfo.n, new_x, NlpInfo.m, new_lambda, NlpInfo.nnz_h_lag, structure)

SpecCalls == Init /\ [][NextCalls]_vars

\* SpecFinal: as SpecCalls under fixed weights, and the engine reports one
\* solution, with the objective and constraint values of its iterate, and
\* goes on calling (the adapter optimized again)
FinalWeights == [obj_factor |-> 1, lambda |-> [i \in 0..(NlpInfo.m - 1) |-> 1]]

NextFinal ==
    \/ get_nlp_info({Fresh(NlpInfo.n)}, {FinalWeights.lambda}, {FinalWeights.obj_factor})
    \/ \E xx \in CallIterates : engine_iterate(xx, lambda, obj_factor)
    \/ \E new_x \in Flags : eval_f(NlpInfo.n, new_x)
    \/ \E new_x \in Flags : eval_grad_f(NlpInfo.n, new_x)
    \/ \E new_x \in Flags : eval_g(NlpInfo.n, new_x, NlpInfo.m)
    \/ \E new_x \in Flags, structure \in Flags :
           eval_jac_g(NlpInfo.n, new_x, NlpInfo.m, NlpInfo.nnz_jac_g, structure)
    \/ \E new_x \in Flags, new_lambda \in Flags, structure \in Flags :
           eval_h(NlpInfo.n, new_x, NlpInfo.m, new_lambda, NlpInfo.nnz_h_lag, structure)
    \/ \E junk \in Junk :
           /\ Running /\ HasIterate /\ out = <<>>
           /\ obj_value = <<f_value(Iterate)>> /\ g = g_values(Iterate, g)
           /\ finalize_solution(NlpInfo.n, NlpInfo.m, junk, FALSE)

SpecFinal == Init /\ [][NextFinal]_vars

(* ============================== claims ================================ *)
\* the arrays of the running engine, by the count that sizes them
Allocated == info # <<>>
Declared == info[1]
AllWritten(buf) == buf # NoArray /\ WrittenSlots(buf) = DOMAIN buf
\* a call wrote exactly the slots 0..cnt-1 of buf, or buf is untouched
ExactlyOrNone(buf, cnt) ==
    /\ DOMAIN buf = 0..(cnt - 1)
    /\ WrittenSlots(buf) \in {{}, 0..(cnt - 1)}
IndexRange(cnt) == Declared.index_style..(Declared.index_style + cnt - 1)

\* C1: the counts get_nlp_info declares (n = 4, m = 2, nnz_jac_g = 8,
\* nnz_h_lag = 10, 0-based) agree with what the other callbacks write: in
\* arrays of the declared sizes the structure call of eval_jac_g writes
\* exactly the slots 0..7 of iRow and jCol, the structure call of eval_h
\* exactly the slots 0..9 (its loop ends with idx = nnz_h_lag), the value
\* calls write the same slot ranges of values, nothing is written past the
\* end of an array, every Jacobian row index lies in 0..m-1 and every
\* Jacobian column index and Hessian row and column index in 0..n-1.
C1_CountsAgree ==
    Allocated =>
        /\ Declared.n = 4 /\ Declared.m = 2
        /\ Declared.nnz_jac_g = 8 /\ Declared.nnz_h_lag = 10
        /\ Declared.index_style = 0
        /\ ExactlyOrNone(jac_iRow, Declared.nnz_jac_g)
        /\ ExactlyOrNone(jac_jCol, Declared.nnz_jac_g)
        /\ WrittenSlots(jac_iRow) = WrittenSlots(jac_jCol)
        /\ ExactlyOrNone(jac_values, Declared.nnz_jac_g)
        /\ ExactlyOrNone(h_iRow, Declared.nnz_h_lag)
        /\ ExactlyOrNone(h_jCol, Declared.nnz_h_lag)
        /\ WrittenSlots(h_iRow) = WrittenSlots(h_jCol)
        /\ ExactlyOrNone(h_values, Declared.nnz_h_lag)
        /\ h_structure(h_iRow, h_jCol).idx = Declared.nnz_h_lag
        /\ \A k \in WrittenSlots(jac_iRow) :
               /\ Val(jac_iRow, k) \in IndexRange(Declared.m)
               /\ Val(jac_jCol, k) \in IndexRange(Declared.n)
        /\ \A k \in WrittenSlots(h_iRow) :
               /\ Val(h_iRow, k) \in IndexRange(Declared.n)
               /\ Val(h_jCol, k) \in IndexRange(Declared.n)

\* both structure calls and both value calls have been made
C1_Witness ==
    /\ ~aborted
    /\ AllWritten(jac_iRow) /\ AllWritten(jac_values)
    /\ AllWritten(h_iRow) /\ AllWritten(h_values)

\* C2: get_bounds_info called with n = 4, m = 2 leaves x_l[i] = 1 and
\* x_u[i] = 5 for the four variables, g_l = [25, 40] and g_u = [2e19, 40];
\* so every lower bound is at most its upper bound, constraint 1 is an
\* equality (g_l[1] = g_u[1]) and constraint 0 is one-sided: its upper
\* bound lies above the engine's infinity threshold 1e19, its lower bound
\* and the bounds of constraint 1 do not.
C2_Bounds ==
    (Allocated /\ (WrittenSlots(x_l) # {} \/ WrittenSlots(x_u) # {}
                   \/ WrittenSlots(g_l) # {} \/ WrittenSlots(g_u) # {})) =>
        /\ AllWritten(x_l) /\ AllWritten(x_u) /\ AllWritten(g_l) /\ AllWritten(g_u)
        /\ Values(x_l) = [i \in 0..3 |-> Whole(1)]
        /\ Values(x_u) = [i \in 0..3 |-> Whole(5)]
        /\ Values(g_l) = [i \in 0..1 |-> IF i = 0 THEN Whole(25) ELSE Whole(40)]
        /\ Values(g_u) = [i \in 0..1 |-> IF i = 0 THEN Num(2, 19) ELSE Whole(40)]
        /\ \A i \in 0..3 : NumLeq(Val(x_l, i), Val(x_u, i))
        /\ \A i \in 0..1 : NumLeq(Val(g_l, i), Val(g_u, i))
        /\ NumEq(Val(g_l, 1), Val(g_u, 1))
        /\ NumLess(Val(g_l, 0), Val(g_u, 0))
        /\ NumLess(nlp_upper_bound_inf, Val(g_u, 0))
        /\ NumLess(Val(g_u, 1), nlp_upper_bound_inf)
        /\ NumLess(Val(g_l, 0), nlp_upper_bound_inf)

\* get_bounds_info has returned
C2_Witness == ~aborted /\ AllWritten(x_l) /\ AllWritten(g_u) /\ ret = "true"

(* ---- finite differences of the evaluators, on integer iterates ---- *)
Vars == 0..3
\* xx moved by d along coordinate i
Shift(xx, i, d) == [xx EXCEPT ![i] = @ + d]
\* the objective and the two constraints as functions of the iterate alone
Objective(xx) == f_value(xx)
Constraint0(xx) == Val(g_values(xx, Fresh(2)), 0)
Constraint1(xx) == Val(g_values(xx, Fresh(2)), 1)
Constraint(r, xx) == Val(g_values(xx, Fresh(2)), r)

\* F(x + e_i) - F(x - e_i): twice the partial derivative, for F of degree
\* at most 2 in x[i]
CentralDiff(F(_), xx, i) == F(Shift(xx, i, 1)) - F(Shift(xx, i, -1))

\* four times the second partial derivative of F by x[i] and x[j], for F of
\* degree at most 2 in each single variable
SecondDiff(F(_), xx, i, j) ==
    IF i = j
    THEN 4 * (F(Shift(xx, i, 1)) - 2 * F(xx) + F(Shift(xx, i, -1)))
    ELSE F(Shift(Shift(xx, i, 1), j, 1)) - F(Shift(Shift(xx, i, 1), j, -1))
         - F(Shift(Shift(xx, i, -1), j, 1)) + F(Shift(Shift(xx, i, -1), j, -1))

\* C3: eval_grad_f is the derivative of eval_f: at every integer iterate of
\* the box grad_f = [x3(2x0+x1+x2), x0 x3, x0 x3 + 1, x0(x0+x1+x2)], and for
\* each i the central difference of eval_f is exact:
\* eval_f(x+e_i) - eval_f(x-e_i) = 2 grad_f[i].
C3_Gradient ==
    (Allocated /\ WrittenSlots(grad_f) # {}) =>
        /\ AllWritten(grad_f)
        /\ Values(grad_f) =
               [i \in Vars |->
                   CASE i = 0 -> Iterate[3] * (2 * Iterate[0] + Iterate[1] + Iterate[2])
                     [] i = 1 -> Iterate[0] * Iterate[3]
                     [] i = 2 -> Iterate[0] * Iterate[3] + 1
                     [] i = 3 -> Iterate[0] * (Iterate[0] + Iterate[1] + Iterate[2])]
        /\ \A i \in Vars : CentralDiff(Objective, Iterate, i) = 2 * Val(grad_f, i)
        /\ obj_value # <<>> => obj_value[1] = Objective(Iterate)

\* eval_grad_f and eval_f have returned at an iterate with distinct, nonzero
\* components
C3_Witness ==
    /\ AllWritten(grad_f) /\ obj_value # <<>> /\ ~aborted
    /\ Iterate[0] = 2 /\ Iterate[1] = -1 /\ Iterate[2] = 1 /\ Iterate[3] = 2

\* C4: the value call of eval_jac_g is the derivative of eval_g in the order
\* of the declared structure: at every integer iterate of the box and for
\* every slot k with structure pair (r, c) = (iRow[k], jCol[k]),
\* eval_g(x+e_c)[r] - eval_g(x-e_c)[r] = 2 values[k]; row 0 is
\* x1x2x3, x0x2x3, x0x1x3, x0x1x2 and row 1 is 2x0, 2x1, 2x2, 2x3.
C4_Jacobian ==
    (Allocated /\ AllWritten(jac_values)) =>
        /\ Values(jac_values) =
               [k \in 0..7 |->
                   CASE k = 0 -> Iterate[1] * Iterate[2] * Iterate[3]
                     [] k = 1 -> Iterate[0] * Iterate[2] * Iterate[3]
                     [] k = 2 -> Iterate[0] * Iterate[1] * Iterate[3]
                     [] k = 3 -> Iterate[0] * Iterate[1] * Iterate[2]
                     [] k > 3 -> 2 * Iterate[k - 4]]
        /\ AllWritten(jac_iRow) =>
               \A k \in 0..7 :
                   LET r == Val(jac_iRow, k)
                       c == Val(jac_jCol, k)
                       Gr(xx) == Constraint(r, xx)
                   IN  CentralDiff(Gr, Iterate, c) = 2 * Val(jac_values, k)
        /\ AllWritten(g) => /\ Val(g, 0) = Iterate[0] * Iterate[1] * Iterate[2] * Iterate[3]
                            /\ Val(g, 1) = Iterate[0] * Iterate[0] + Iterate[1] * Iterate[1]
                                           + Iterate[2] * Iterate[2] + Iterate[3] * Iterate[3]

\* the structure call, the value call and eval_g have returned at an
\* iterate with distinct, nonzero components
C4_Witness ==
    /\ AllWritten(jac_values) /\ AllWritten(jac_iRow) /\ AllWritten(g) /\ ~aborted
    /\ Iterate[0] = 2 /\ Iterate[1] = -1 /\ Iterate[2] = 1 /\ Iterate[3] = 2

(* ---- the matrix the engine reconstructs from the Hessian triplets ---- *)
\* the slots whose pair is (i, j) or its mirror (j, i)
SlotsOf(i, j) ==
    {k \in WrittenSlots(h_iRow) :
        \/ Val(h_iRow, k) = i /\ Val(h_jCol, k) = j
        \/ Val(h_iRow, k) = j /\ Val(h_jCol, k) = i}
\* entry (i, j) of the symmetric matrix: the sum of the values of its slots
RECURSIVE SumSlots(_)
SumSlots(S) ==
    IF S = {} THEN 0
    ELSE LET k == CHOOSE k \in S : TRUE IN Val(h_values, k) + SumSlots(S \ {k})
Reconstructed(i, j) == SumSlots(SlotsOf(i, j))

HessianEvaluated == Allocated /\ AllWritten(h_values) /\ AllWritten(h_iRow)

\* C5: for every integer iterate of the box and all weights obj_factor,
\* lambda[0], lambda[1] of the range, the symmetric 4x4 matrix reconstructed
\* from the 10 values of the value call of eval_h (slot k at
\* (iRow[k], jCol[k]) and mirrored) is, entry by entry,
\* obj_factor Hessian(objective) + lambda[0] Hessian(g0) + lambda[1] Hessian(g1).
C5_LagrangianHessian ==
    HessianEvaluated =>
        \A i \in Vars, j \in Vars :
            /\ Cardinality(SlotsOf(i, j)) = 1
            /\ 4 * Reconstructed(i, j) =
                   obj_factor * SecondDiff(Objective, Iterate, i, j)
                   + lambda[0] * SecondDiff(Constraint0, Iterate, i, j)
                   + lambda[1] * SecondDiff(Constraint1, Iterate, i, j)

\* the Hessian evaluated with three distinct nonzero weights
C5_Witness ==
    /\ HessianEvaluated /\ ~aborted
    /\ Iterate[0] = 1 /\ Iterate[1] = 2 /\ Iterate[2] = 0 /\ Iterate[3] = 2
    /\ obj_factor = 1 /\ lambda[0] = -1 /\ lambda[1] = 1

\* C6: with exactly one of the weights obj_factor, lambda[0], lambda[1]
\* equal to 1 and the other two 0, the reconstructed matrix is the Hessian
\* of that one function: (1, [0,0]) gives the second differences of eval_f,
\* (0, [1,0]) those of g[0] and (0, [0,1]) those of g[1]; no term of one
\* function shows in the matrix of another.
C6_SingleFunctionHessian ==
    HessianEvaluated =>
        /\ (obj_factor = 1 /\ lambda[0] = 0 /\ lambda[1] = 0) =>
               \A i \in Vars, j \in Vars :
                   4 * Reconstructed(i, j) = SecondDiff(Objective, Iterate, i, j)
        /\ (obj_factor = 0 /\ lambda[0] = 1 /\ lambda[1] = 0) =>
               \A i \in Vars, j \in Vars :
                   4 * Reconstructed(i, j) = SecondDiff(Constraint0, Iterate, i, j)
        /\ (obj_factor = 0 /\ lambda[0] = 0 /\ lambda[1] = 1) =>
               \A i \in Vars, j \in Vars :
                   4 * Reconstructed(i, j) = SecondDiff(Constraint1, Iterate, i, j)

\* the Hessian evaluated with the first constraint alone
C6_Witness ==
    /\ HessianEvaluated /\ ~aborted
    /\ obj_factor = 0 /\ lambda[0] = 1 /\ lambda[1] = 0
    /\ Iterate[0] = 1 /\ Iterate[1] = 2 /\ Iterate[2] = 1 /\ Iterate[3] = 2

(* ---------------- preconditions on the dimensions ---------------- *)
\* every array a callback can write, and the console
Outputs == <<x, z_L, z_U, lambda, x_l, x_u, g_l, g_u, obj_value, grad_f, g,
             jac_iRow, jac_jCol, jac_values, h_iRow, h_jCol, h_values, out>>

\* the step is a call that ends on a failed assertion and writes nothing
AssertionAbort ==
    /\ ~aborted /\ aborted'
    /\ err' # <<>> /\ err'[1].expr # "SIGSEGV"
    /\ UNCHANGED Outputs

\* the step is a call of a callback handed a dimension that differs from
\* the declared one
WrongDimensionCall ==
    \/ \E d \in Dims2 :
           /\ d[1] # 4 \/ d[2] # 2
           /\ \/ get_bounds_info(d[1], d[2])
              \/ \E ix \in Flags, iz \in Flags, il \in Flags :
                     get_starting_point(d[1], ix, iz, il, d[2])
              \/ \E new_x \in Flags : eval_g(d[1], new_x, d[2])
              \/ \E junk \in Junk, crash \in Flags :
                     finalize_solution(d[1], d[2], junk, crash)
    \/ \E n \in Ns \ {4}, new_x \in Flags : eval_f(n, new_x) \/ eval_grad_f(n, new_x)
    \/ \E d \in DimsJac, new_x \in Flags, structure \in Flags :
           /\ d[1] # 4 \/ d[2] # 2 \/ d[3] # 8
           /\ eval_jac_g(d[1], new_x, d[2], d[3], structure)
    \/ \E d \in DimsHess, new_x \in Flags, new_lambda \in Flags, structure \in Flags :
           /\ d[1] # 4 \/ d[2] # 2 \/ d[3] # 10
           /\ eval_h(d[1], new_x, d[2], new_lambda, d[3], structure)

\* C7 as claimed: every callback handed a dimension (n, m, nele_jac,
\* nele_hess) that differs from the declared one (4, 2, 8, 10) aborts on its
\* assertion and writes nothing; this for get_bounds_info,
\* get_starting_point, eval_f, eval_grad_f, eval_g, eval_jac_g and eval_h in
\* both modes, and finalize_solution.
C7_EveryDimensionChecked == [][AssertionAbort \/ ~WrongDimensionCall]_vars

\* the step is a call handed an n or m that the callback asserts on
AssertedDimensionCall ==
    \/ \E d \in Dims2 :
           /\ d[1] # 4 \/ d[2] # 2
           /\ \/ get_bounds_info(d[1], d[2])
              \/ \E new_x \in Flags : eval_g(d[1], new_x, d[2])
    \/ \E n \in Ns \ {4}, new_x \in Flags : eval_f(n, new_x) \/ eval_grad_f(n, new_x)
    \/ \E d \in DimsJac, new_x \in Flags, structure \in Flags :
           /\ d[1] # 4 \/ d[2] # 2
           /\ eval_jac_g(d[1], new_x, d[2], d[3], structure)
    \/ \E d \in DimsHess, new_x \in Flags, new_lambda \in Flags, structure \in Flags :
           /\ d[1] # 4 \/ d[2] # 2
           /\ eval_h(d[1], new_x, d[2], new_lambda, d[3], structure)

\* the assertion that ended the process, if one did
FailedIn(fn) == aborted /\ err # <<>> /\ err[1].fn = fn

\* what the callbacks assert: n and m where they assert a dimension at all,
\* the three flags in get_starting_point, and the count of the structure
\* loop of eval_h once the index pairs are written
OnlyDeclaredAssertions ==
    /\ \A fn \in {"get_bounds_info", "eval_g", "eval_jac_g"} :
           FailedIn(fn) => err[1].expr \in {"n == 4", "m == 2"}
    /\ \A fn \in {"eval_f", "eval_grad_f"} :
           FailedIn(fn) => err[1].expr = "n == 4"
    /\ FailedIn("get_starting_point") =>
           err[1].expr \in {"init_x == true", "init_z == false", "init_lambda == false"}
    /\ FailedIn("eval_h") =>
           /\ err[1].expr \in {"n == 4", "m == 2", "idx == nele_hess"}
           /\ err[1].expr = "idx == nele_hess" =>
                  AllWritten(h_iRow) /\ AllWritten(h_jCol)
    /\ FailedIn("finalize_solution") => err[1].expr = "SIGSEGV" /\ out # <<>>
    /\ aborted => err # <<>>

\* C7, amended: a callback aborts on its assertion, before it writes
\* anything, when it is handed an n or m it asserts on: n # 4 or m # 2 for
\* get_bounds_info, eval_g, eval_jac_g and eval_h (both modes), n # 4 for
\* eval_f and eval_grad_f.  No other dimension is a checked precondition:
\* get_starting_point asserts its three flags only, eval_jac_g never fails
\* on nele_jac, eval_h fails on nele_hess only in its structure call and
\* only after it has written the 10 index pairs, and finalize_solution
\* asserts nothing (n and m bound its loops).
C7_AssertedDimensionsChecked ==
    /\ [][AssertionAbort \/ ~AssertedDimensionCall]_vars
    /\ []OnlyDeclaredAssertions

\* eval_g handed m # 2 has ended the process on its assertion before any
\* array was written
C7_Witness ==
    /\ aborted /\ err = <<[fn |-> "eval_g", expr |-> "m == 2"]>>
    /\ HasIterate /\ WrittenSlots(g) = {}

(* ----------------------- the structure calls ----------------------- *)
Pairs(iRow, jCol) == {<<Val(iRow, k), Val(jCol, k)>> : k \in WrittenSlots(iRow)}

\* C8: the structure calls of eval_jac_g and eval_h return the same fixed
\* index sets whatever x (absent or not), lambda, obj_factor, new_x and
\* new_lambda are: 8 pairwise distinct pairs, the whole of rows 0..1 by
\* columns 0..3, and 10 pairwise distinct pairs, the lower triangle of
\* 0..3 by 0..3; and once a structure call has written them, no later call
\* (a value call, or the structure call repeated) changes a pair or its
\* place.
C8_FixedStructure ==
    /\ [](Allocated =>
            /\ AllWritten(jac_iRow) =>
                   /\ Pairs(jac_iRow, jac_jCol) = (0..1) \X (0..3)
                   /\ Cardinality(Pairs(jac_iRow, jac_jCol)) = 8
            /\ AllWritten(h_iRow) =>
                   /\ Pairs(h_iRow, h_jCol) = {p \in Vars \X Vars : p[2] <= p[1]}
                   /\ Cardinality(Pairs(h_iRow, h_jCol)) = 10)
    /\ [][/\ AllWritten(jac_iRow) => jac_iRow' = jac_iRow /\ jac_jCol' = jac_jCol
          /\ AllWritten(h_iRow) => h_iRow' = h_iRow /\ h_jCol' = h_jCol]_vars

\* both structures written, with and without an iterate, and both value
\* calls made under nonzero weights
C8_Witness ==
    /\ ~aborted /\ AllWritten(jac_iRow) /\ AllWritten(h_iRow)
    /\ AllWritten(jac_values) /\ AllWritten(h_values)
    /\ obj_factor = 1 /\ lambda[0] = 1

(* ------------------------ the starting point ----------------------- *)
StartingPoint == [i \in Vars |-> IF i \in {0, 3} THEN 1 ELSE 5]

\* C9: get_starting_point called with init_x = true, init_z = false and
\* init_lambda = false writes x = [1, 5, 5, 1], returns true and leaves
\* z_L, z_U and lambda as they were; called with init_x = false,
\* init_z = true or init_lambda = true it fails its assertion and supplies
\* nothing.
C9_StartingPoint ==
    [][\A d \in Dims2, init_x \in Flags, init_z \in Flags, init_lambda \in Flags :
           get_starting_point(d[1], init_x, init_z, init_lambda, d[2]) =>
               /\ z_L' = z_L /\ z_U' = z_U /\ lambda' = lambda
               /\ IF init_x /\ ~init_z /\ ~init_lambda
                  THEN /\ AllWritten(x') /\ Values(x') = StartingPoint
                       /\ ret' = "true" /\ ~aborted'
                  ELSE /\ aborted' /\ err'[1].fn = "get_starting_point"
                       /\ x' = x /\ ret' = ret
      ]_vars

\* get_starting_point has returned, before anything else was asked
C9_Witness ==
    /\ ~aborted /\ ret = "true" /\ HasIterate /\ Iterate = StartingPoint
    /\ WrittenSlots(x_l) = {} /\ WrittenSlots(jac_iRow) = {} /\ WrittenSlots(h_iRow) = {}
    /\ obj_value = <<>> /\ WrittenSlots(g) = {} /\ WrittenSlots(grad_f) = {}

\* C10: at the starting point get_starting_point returns, eval_f gives 16
\* and eval_g gives [25, 52]; with the bounds of get_bounds_info the point
\* satisfies every variable bound, meets the inequality constraint with
\* equality (g[0] = g_l[0] = 25) and violates the equality constraint
\* (g[1] = 52, g_l[1] = g_u[1] = 40).
C10_StartingPointValues ==
    HasIterate =>
        /\ obj_value # <<>> => obj_value[1] = 16
        /\ AllWritten(g) => Val(g, 0) = 25 /\ Val(g, 1) = 52
        /\ AllWritten(x_l) /\ AllWritten(x_u) =>
               \A i \in Vars : /\ NumLeq(Val(x_l, i), Whole(Iterate[i]))
                               /\ NumLeq(Whole(Iterate[i]), Val(x_u, i))
        /\ AllWritten(g) /\ AllWritten(g_l) /\ AllWritten(g_u) =>
               /\ NumEq(Whole(Val(g, 0)), Val(g_l, 0))
               /\ NumLeq(Whole(Val(g, 0)), Val(g_u, 0))
               /\ NumEq(Val(g_l, 1), Val(g_u, 1))
               /\ ~NumEq(Whole(Val(g, 1)), Val(g_l, 1))
               /\ NumLess(Val(g_u, 1), Whole(Val(g, 1)))

\* eval_f, eval_g and get_bounds_info have returned at the starting point
C10_Witness ==
    /\ ~aborted /\ HasIterate /\ obj_value # <<>> /\ AllWritten(g)
    /\ AllWritten(x_l) /\ AllWritten(g_u)

(* -------------------- calls in any order, repeated -------------------- *)
\* the step is a call of the evaluator, with the declared dimensions
Step_eval_f == \E new_x \in Flags : eval_f(NlpInfo.n, new_x)
Step_eval_grad_f == \E new_x \in Flags : eval_grad_f(NlpInfo.n, new_x)
Step_eval_g == \E new_x \in Flags : eval_g(NlpInfo.n, new_x, NlpInfo.m)
Step_eval_jac_g(structure) ==
    \E new_x \in Flags :
        eval_jac_g(NlpInfo.n, new_x, NlpInfo.m, NlpInfo.nnz_jac_g, structure)
Step_eval_h(structure) ==
    \E new_x \in Flags, new_lambda \in Flags :
        eval_h(NlpInfo.n, new_x, NlpInfo.m, new_lambda, NlpInfo.nnz_h_lag, structure)
\* what the value calls return when they are the first calls made on a
\* newly constructed adapter, with arrays nothing was written to
FirstCall(output) ==
    CASE output = "obj_value" -> <<f_value(Iterate)>>
      [] output = "grad_f" -> grad_f_values(Iterate, Fresh(NlpInfo.n))
      [] output = "g" -> g_values(Iterate, Fresh(NlpInfo.m))
      [] output = "jac_values" -> jac_g_values(Iterate, Fresh(NlpInfo.nnz_jac_g))
      [] output = "h_values" ->
             h_values_of(obj_factor, Iterate, lambda, Fresh(NlpInfo.nnz_h_lag))

\* the call returns true and leaves its inputs as they were
InputsKept ==
    /\ x' = x /\ lambda' = lambda /\ obj_factor' = obj_factor
    /\ ret' = "true" /\ ~aborted'

\* the step leaves every output array but those named as it was
OthersKept(changed) ==
    /\ "obj_value" \in changed \/ obj_value' = obj_value
    /\ "grad_f" \in changed \/ grad_f' = grad_f
    /\ "g" \in changed \/ g' = g
    /\ "jac_values" \in changed \/ jac_values' = jac_values
    /\ "h_values" \in changed \/ h_values' = h_values
    /\ "jac_structure" \in changed \/ (jac_iRow' = jac_iRow /\ jac_jCol' = jac_jCol)
    /\ "h_structure" \in changed \/ (h_iRow' = h_iRow /\ h_jCol' = h_jCol)

\* C11: the adapter is stateless.  In every sequence of calls, in any
\* order (the structure call of a matrix before its value calls), while the
\* engine moves its iterate and weights between calls: what a call of
\* eval_f, eval_grad_f, eval_g, eval_jac_g or eval_h returns is what the same
\* call returns as the first call on a fresh adapter, whatever was called,
\* and written to the arrays, before; the call changes no output of another
\* evaluator, and it leaves x, lambda and obj_factor as they were.
C11_Stateless ==
    [][/\ Step_eval_f =>
              InputsKept /\ obj_value' = FirstCall("obj_value") /\ OthersKept({"obj_value"})
       /\ Step_eval_grad_f =>
              InputsKept /\ grad_f' = FirstCall("grad_f") /\ OthersKept({"grad_f"})
       /\ Step_eval_g =>
              InputsKept /\ g' = FirstCall("g") /\ OthersKept({"g"})
       /\ Step_eval_jac_g(FALSE) =>
              /\ InputsKept /\ OthersKept({"jac_values"})
              /\ jac_values' = FirstCall("jac_values")
       /\ Step_eval_h(FALSE) =>
              /\ InputsKept /\ OthersKept({"h_values"})
              /\ h_values' = FirstCall("h_values")
       /\ Step_eval_jac_g(TRUE) => InputsKept /\ OthersKept({"jac_structure"})
       /\ Step_eval_h(TRUE) => InputsKept /\ OthersKept({"h_structure"})
      ]_vars

\* the five evaluators have returned at an iterate the engine moved to,
\* under nonzero multipliers, after they had returned other values before:
\* every array holds the values of the present iterate
C11_Witness ==
    /\ ~aborted /\ HasIterate /\ Iterate[0] = MaxCallX /\ lambda[1] = 1
    /\ obj_value = FirstCall("obj_value") /\ grad_f = FirstCall("grad_f") /\ g = FirstCall("g")
    /\ jac_values = FirstCall("jac_values") /\ h_values = FirstCall("h_values")

(* ------------------------- finalize_solution -------------------------- *)
Step_finalize_solution ==
    \E junk \in Junk, crash \in Flags :
        finalize_solution(NlpInfo.n, NlpInfo.m, junk, crash)

\* line k of the report: x[0..n-1], z_L[0..n-1], z_U[0..n-1], the objective
\* value, g[0..m-1]
ReportLine(k) ==
    LET n == NlpInfo.n
        m == NlpInfo.m
        Line(name, i, v) == [name |-> name, i |-> i, v |-> v, valid |-> TRUE]
    IN  CASE k <= n -> Line("x", k - 1, Val(x, k - 1))
          [] k > n /\ k <= 2 * n -> Line("z_L", k - n - 1, z_L[k - n - 1])
          [] k > 2 * n /\ k <= 3 * n -> Line("z_U", k - 2 * n - 1, z_U[k - 2 * n - 1])
          [] k = 3 * n + 1 -> Line("f(x*)", 0, obj_value[1])
          [] k > 3 * n + 1 -> Line("g", k - 3 * n - 2, Val(g, k - 3 * n - 2))
Report == [k \in 1..(3 * NlpInfo.n + 1 + NlpInfo.m) |-> ReportLine(k)]

\* C12: finalize_solution has no effect on the optimization result.  It
\* returns nothing; it changes none of x, z_L, z_U, g, lambda, obj_value and
\* nothing else the adapter's callbacks write; its one effect is the output
\* of x[0..n-1], z_L[0..n-1], z_U[0..n-1], obj_value and g[0..m-1], in that
\* order; and an evaluator called after it returns what it returns as the
\* first call on a fresh adapter, as before it.
C12_FinalizeOnlyReports ==
    [][/\ Step_finalize_solution =>
              /\ ret' = "void" /\ ~aborted'
              /\ UNCHANGED <<info, x, z_L, z_U, lambda, obj_factor, obj_value, g>>
              /\ UNCHANGED <<x_l, x_u, g_l, g_u, grad_f>>
              /\ OthersKept({})
              /\ out' = out \o Report
       /\ out # <<>> =>
              /\ out' = out
              /\ Step_eval_f => obj_value' = FirstCall("obj_value")
              /\ Step_eval_grad_f => grad_f' = FirstCall("grad_f")
              /\ Step_eval_g => g' = FirstCall("g")
              /\ Step_eval_jac_g(FALSE) => jac_values' = FirstCall("jac_values")
              /\ Step_eval_h(FALSE) => h_values' = FirstCall("h_values")
      ]_vars

\* the solution was reported at the first iterate; the engine then moved
\* and every evaluator has returned the values of the present iterate
C12_Witness ==
    /\ ~aborted /\ out # <<>> /\ out[1].v = 1 /\ ret = "true"
    /\ HasIterate /\ Iterate[0] = MaxCallX
    /\ obj_value = FirstCall("obj_value") /\ grad_f = FirstCall("grad_f")
    /\ g = FirstCall("g") /\ jac_values = FirstCall("jac_values")
    /\ h_values = FirstCall("h_values")

(* --------------------- the order of the structures -------------------- *)
\* the lower triangle of a 4 x 4 matrix, diagonal included, row by row
LowerTriangleRowMajor ==
    <<<<0, 0>>, <<1, 0>>, <<1, 1>>, <<2, 0>>, <<2, 1>>, <<2, 2>>,
      <<3, 0>>, <<3, 1>>, <<3, 2>>, <<3, 3>>>>

\* C13: the structure call of eval_h enumerates the lower triangle,
\* diagonal included, in row-major order: slot k holds (row, col) with
\* col <= row, the sequence is (0,0),(1,0),(1,1),(2,0),(2,1),(2,2),(3,0),
\* (3,1),(3,2),(3,3), and no pair strictly above the diagonal is reported;
\* the structure call of eval_jac_g enumerates the dense 2 x 4 pattern in
\* row-major order, slot k holding (k div 4, k mod 4).
C13_RowMajorOrder ==
    Allocated =>
        /\ WrittenSlots(h_iRow) = WrittenSlots(h_jCol)
        /\ \A k \in WrittenSlots(h_iRow) :
               /\ Val(h_jCol, k) <= Val(h_iRow, k)
               /\ <<Val(h_iRow, k), Val(h_jCol, k)>> = LowerTriangleRowMajor[k + 1]
               /\ \A j \in WrittenSlots(h_iRow) :
                      j < k => \/ Val(h_iRow, j) < Val(h_iRow, k)
                               \/ /\ Val(h_iRow, j) = Val(h_iRow, k)
                                  /\ Val(h_jCol, j) < Val(h_jCol, k)
        /\ WrittenSlots(h_iRow) # {} => WrittenSlots(h_iRow) = 0..9
        /\ WrittenSlots(jac_iRow) = WrittenSlots(jac_jCol)
        /\ \A k \in WrittenSlots(jac_iRow) :
               Val(jac_iRow, k) = k \div 4 /\ Val(jac_jCol, k) = k % 4
        /\ WrittenSlots(jac_iRow) # {} => WrittenSlots(jac_iRow) = 0..7

\* both structure calls have returned before the engine has an iterate
C13_Witness ==
    /\ ~aborted /\ ret = "true" /\ ~HasIterate
    /\ AllWritten(h_iRow) /\ AllWritten(h_jCol)
    /\ AllWritten(jac_iRow) /\ AllWritten(jac_jCol)

(* ------------------------ new_x and new_lambda ------------------------ *)
\* C14: new_x and new_lambda are advisory.  At every x, obj_factor and
\* lambda, two calls of the same evaluator that differ only in new_x or
\* new_lambda write the same outputs and return the same value: a step of
\* a call under one value of the flags is a step of the call under every
\* value of them.  A call told that nothing has changed (new_x = false,
\* new_lambda = false) still computes at the x and lambda it is handed, not
\* what an earlier call returned.
C14_FlagsAdvisory ==
    [][/\ \A new_x \in Flags :
              eval_f(NlpInfo.n, new_x) => eval_f(NlpInfo.n, ~new_x)
       /\ \A new_x \in Flags :
              eval_grad_f(NlpInfo.n, new_x) => eval_grad_f(NlpInfo.n, ~new_x)
       /\ \A new_x \in Flags :
              eval_g(NlpInfo.n, new_x, NlpInfo.m) => eval_g(NlpInfo.n, ~new_x, NlpInfo.m)
       /\ \A new_x \in Flags, structure \in Flags :
              eval_jac_g(NlpInfo.n, new_x, NlpInfo.m, NlpInfo.nnz_jac_g, structure) =>
                  eval_jac_g(NlpInfo.n, ~new_x, NlpInfo.m, NlpInfo.nnz_jac_g, structure)
       /\ \A new_x \in Flags, new_lambda \in Flags, structure \in Flags :
              eval_h(NlpInfo.n, new_x, NlpInfo.m, new_lambda,
                     NlpInfo.nnz_h_lag, structure) =>
                  \A nx \in Flags, nl \in Flags :
                      eval_h(NlpInfo.n, nx, NlpInfo.m, nl, NlpInfo.nnz_h_lag, structure)
       /\ eval_f(NlpInfo.n, FALSE) => obj_value' = FirstCall("obj_value")
       /\ eval_grad_f(NlpInfo.n, FALSE) => grad_f' = FirstCall("grad_f")
       /\ eval_g(NlpInfo.n, FALSE, NlpInfo.m) => g' = FirstCall("g")
       /\ eval_jac_g(NlpInfo.n, FALSE, NlpInfo.m, NlpInfo.nnz_jac_g, FALSE) =>
              jac_values' = FirstCall("jac_values")
       /\ eval_h(NlpInfo.n, FALSE, NlpInfo.m, FALSE, NlpInfo.nnz_h_lag, FALSE) =>
              h_values' = FirstCall("h_values")
      ]_vars

\* the engine has moved between calls: the gradient and the Jacobian values
\* are those of an earlier iterate, the objective, the constraints and the
\* Hessian values those of the present one
C14_Witness ==
    /\ ~aborted /\ HasIterate
    /\ AllWritten(grad_f) /\ grad_f # FirstCall("grad_f")
    /\ AllWritten(jac_values) /\ jac_values # FirstCall("jac_values")
    /\ obj_value = FirstCall("obj_value") /\ g = FirstCall("g")
    /\ h_values = FirstCall("h_values")

(* --------------------------- the two modes ---------------------------- *)
\* C15: the two modes of eval_jac_g and of eval_h, called with the declared
\* dimensions, are disjoint in what they write.  A structure call
\* (values == NULL) fills iRow and jCol and writes no value; a value call
\* fills values and leaves iRow and jCol untouched, so the index pairs of
\* the first structure call stay as they were across every later value
\* call; both return true.
C15_ModesDisjoint ==
    [][/\ Step_eval_jac_g(TRUE) =>
              /\ jac_values' = jac_values
              /\ WrittenSlots(jac_iRow') = DOMAIN jac_iRow
              /\ WrittenSlots(jac_jCol') = DOMAIN jac_jCol
              /\ ret' = "true" /\ ~aborted'
       /\ Step_eval_jac_g(FALSE) =>
              /\ jac_iRow' = jac_iRow /\ jac_jCol' = jac_jCol
              /\ WrittenSlots(jac_values') = DOMAIN jac_values
              /\ ret' = "true" /\ ~aborted'
       /\ Step_eval_h(TRUE) =>
              /\ h_values' = h_values
              /\ WrittenSlots(h_iRow') = DOMAIN h_iRow
              /\ WrittenSlots(h_jCol') = DOMAIN h_jCol
              /\ ret' = "true" /\ ~aborted'
       /\ Step_eval_h(FALSE) =>
              /\ h_iRow' = h_iRow /\ h_jCol' = h_jCol
              /\ WrittenSlots(h_values') = DOMAIN h_values
              /\ ret' = "true" /\ ~aborted'
      ]_vars

\* the structure calls have returned while the engine held an iterate, and
\* no value of either matrix has been written
C15_Witness ==
    /\ ~aborted /\ ret = "true" /\ HasIterate
    /\ AllWritten(jac_iRow) /\ AllWritten(h_iRow)
    /\ WrittenSlots(jac_values) = {} /\ WrittenSlots(h_values) = {}

====
